---- MODULE Spec2Model ----
(***************************************************************************)
(* A model of the vira URL trie (src/trie.go): Trie.Define / parseNode     *)
(* build the trie, Node.Handle attaches handlers, Trie.Match walks it.     *)
(*                                                                         *)
(* A Go string is a sequence of one-character strings; s[a:b] of the       *)
(* source is Slice(s, a, b) and s[i] is At(s, i), both with the source's   *)
(* 0-based indices.  A *Node is an index into the arena `nodes` (0 is the  *)
(* nil pointer, 1 the root); a Go map is a set of <<key, value>> pairs; a  *)
(* nil *regexp.Regexp is the empty sequence, a compiled one its source.    *)
(***************************************************************************)
EXTENDS Integers, Sequences, FiniteSets, TLC

\* ------------------------------------------------------------------------
\* Strings
\* ------------------------------------------------------------------------

Upper ==
  <<"A","B","C","D","E","F","G","H","I","J","K","L","M",
    "N","O","P","Q","R","S","T","U","V","W","X","Y","Z">>

Lower ==
  <<"a","b","c","d","e","f","g","h","i","j","k","l","m",
    "n","o","p","q","r","s","t","u","v","w","x","y","z">>

Digits ==
  {"0","1","2","3","4","5","6","7","8","9"}

Letters ==
  {Upper[i] : i \in 1..26} \cup {Lower[i] : i \in 1..26}

\* \w of wordReg
WordChars ==
  Letters \cup Digits \cup {"_"}

\* the class [A-Za-z0-9!$%&'*+,-.:;=@_~] of suffixReg and doubleColonReg
PathChars ==
  Letters \cup Digits \cup
  {"!", "$", "%", "&", "'", "*", "+", ",", "-", ".", ":", ";", "=", "@", "_", "~"}

Slice(s, a, b) ==
  SubSeq(s, a + 1, b)

At(s, i) ==
  s[i + 1]

ToLowerChar(c) ==
  IF \E i \in 1..26 : Upper[i] = c
    THEN Lower[CHOOSE i \in 1..26 : Upper[i] = c]
    ELSE c

ToLower(s) ==
  [i \in 1..Len(s) |-> ToLowerChar(s[i])]

HasPrefix(s, p) ==
  Len(s) >= Len(p) /\ SubSeq(s, 1, Len(p)) = p

HasSuffix(s, x) ==
  Len(s) >= Len(x) /\ SubSeq(s, Len(s) - Len(x) + 1, Len(s)) = x

Contains(s, sub) ==
  \E i \in 0..(Len(s) - Len(sub)) : Slice(s, i, i + Len(sub)) = sub

TrimPrefix(s, p) ==
  IF HasPrefix(s, p) THEN Slice(s, Len(p), Len(s)) ELSE s

\* strings.IndexRune: the 0-based index of the first c, or -1
IndexRune(s, c) ==
  IF \E i \in 0..(Len(s) - 1) : At(s, i) = c
    THEN CHOOSE i \in 0..(Len(s) - 1) :
           At(s, i) = c /\ \A j \in 0..(i - 1) : At(s, j) # c
    ELSE -1

RECURSIVE Split(_, _)
\* strings.Split(s, sep) for a one-character sep: always at least one piece
Split(s, sep) ==
  LET i == IndexRune(s, sep)
  IN  IF i = -1 THEN <<s>>
      ELSE <<Slice(s, 0, i)>> \o Split(Slice(s, i + 1, Len(s)), sep)

\* wordReg = ^\w+$
wordReg(s) ==
  Len(s) > 0 /\ \A i \in 1..Len(s) : s[i] \in WordChars

\* doubleColonReg = ^::[A-Za-z0-9!$%&'*+,-.:;=@_~]*$
doubleColonReg(s) ==
  /\ Len(s) >= 2
  /\ s[1] = ":"
  /\ s[2] = ":"
  /\ \A i \in 3..Len(s) : s[i] \in PathChars

\* suffixReg.FindString, suffixReg = \+[A-Za-z0-9!$%&'*+,-.:;=@_~]*$ :
\* the leftmost "+" followed only by class characters up to the end
suffixRegFind(s) ==
  LET ok(i) == At(s, i) = "+" /\ \A j \in (i + 1)..(Len(s) - 1) : At(s, j) \in PathChars
  IN  IF \E i \in 0..(Len(s) - 1) : ok(i)
        THEN LET i == CHOOSE i \in 0..(Len(s) - 1) :
                        ok(i) /\ \A j \in 0..(i - 1) : ~ok(j)
             IN  Slice(s, i, Len(s))
        ELSE <<>>

\* multiSlashReg.ReplaceAllString(path, "/"), multiSlashReg = /{2,}
RECURSIVE ReplaceMultiSlash(_)
ReplaceMultiSlash(s) ==
  IF Len(s) < 2 THEN s
  ELSE IF s[1] = "/" /\ s[2] = "/" THEN ReplaceMultiSlash(Tail(s))
  ELSE <<s[1]>> \o ReplaceMultiSlash(Tail(s))

\* ------------------------------------------------------------------------
\* Regular expressions: the fragment  ^? (atom +?)* $?  with atom a word
\* character or \d, matched as regexp.MatchString does (unanchored search)
\* ------------------------------------------------------------------------

RECURSIVE RegexAtomsOk(_, _)
RegexAtomsOk(re, k) ==
  IF k > Len(re) THEN TRUE
  ELSE IF re[k] = "$" THEN k = Len(re)
  ELSE LET w == IF re[k] = "\\" THEN 2 ELSE 1
           atomOk == IF w = 2 THEN k + 1 <= Len(re) /\ re[k + 1] = "d"
                              ELSE re[k] \in WordChars
           plus == atomOk /\ k + w <= Len(re) /\ re[k + w] = "+"
       IN  atomOk /\ RegexAtomsOk(re, IF plus THEN k + w + 1 ELSE k + w)

\* regexp.MustCompile succeeds
RegexCompiles(re) ==
  Len(re) > 0 /\ RegexAtomsOk(re, IF re[1] = "^" THEN 2 ELSE 1)

RegexAtomMatch(re, k, c) ==
  IF re[k] = "\\" THEN c \in Digits ELSE c = re[k]

RECURSIVE RegexMatchHere(_, _, _, _)
RegexMatchHere(re, k, s, j) ==
  IF k > Len(re) THEN TRUE
  ELSE IF re[k] = "$" THEN j > Len(s)
  ELSE LET w == IF re[k] = "\\" THEN 2 ELSE 1
           plus == k + w <= Len(re) /\ re[k + w] = "+"
       IN  IF plus
             THEN \E n \in 1..(Len(s) - j + 1) :
                    /\ \A i \in j..(j + n - 1) : RegexAtomMatch(re, k, s[i])
                    /\ RegexMatchHere(re, k + w + 1, s, j + n)
             ELSE /\ j <= Len(s)
                  /\ RegexAtomMatch(re, k, s[j])
                  /\ RegexMatchHere(re, k + w, s, j + 1)

\* (*regexp.Regexp).MatchString
RegexMatchString(re, s) ==
  IF re[1] = "^" THEN RegexMatchHere(re, 2, s, 1)
  ELSE \E j \in 1..(Len(s) + 1) : RegexMatchHere(re, 1, s, j)

\* ------------------------------------------------------------------------
\* Nodes and the pattern compiler
\* ------------------------------------------------------------------------

NilNode == 0

RootNode == 1

NilRegex == <<>>

\* the outcome "the loop panicked" of checkExists
PanicNode == -1

\* &Node{segment: segment, parent: parent, children: make(map), handlers: make(map)}
NewNode(segment, parent) ==
  [ name |-> <<>>, allow |-> <<>>, pattern |-> <<>>, segment |-> segment,
    suffix |-> <<>>, endpoint |-> FALSE, wildcard |-> FALSE, parent |-> parent,
    varyChildren |-> <<>>, children |-> {}, handlers |-> {}, regex |-> NilRegex ]

\* the root made by New: no segment, no parent
NewRoot ==
  NewNode(<<>>, NilNode)

\* m[key] of a Go map held as a set of pairs; zero when the key is absent
MapGet(m, key, zero) ==
  IF \E e \in m : e[1] = key THEN (CHOOSE e \in m : e[1] = key)[2] ELSE zero

\* MapSet that leaves the value of a key already present
MapSetKeepsFirst(m, key, val) ==
  IF \E e \in m : e[1] = key THEN m ELSE m \cup {<<key, val>>}

\* m[key] = val
MapSet(m, key, val) ==
  {e \in m : e[1] # key} \cup {<<key, val>>}

getChild(ns, node, segment) ==
  MapGet(ns[node].children, segment, NilNode)

\* varyLess that moves nothing forward
varyLessNever(a, b) ==
  FALSE

\* varyLess without its case for the regex
varyLessNoRegex(a, b) ==
  CASE a.suffix = <<>> /\ b.suffix # <<>> -> FALSE
    [] a.suffix # <<>> /\ b.suffix = <<>> -> TRUE
    [] OTHER -> FALSE

\* the comparator handed to sort.SliceStable: a sorts before b
varyLess(a, b) ==
  CASE a.suffix = <<>> /\ b.suffix # <<>> -> FALSE
    [] a.suffix # <<>> /\ b.suffix = <<>> -> TRUE
    [] a.regex # NilRegex /\ b.regex = NilRegex -> TRUE
    [] OTHER -> FALSE

RECURSIVE InsertStable(_, _, _)
\* x goes behind the sorted list s and moves forward past every element it
\* must precede; equal elements keep their order
InsertStable(ns, s, x) ==
  IF s = <<>> THEN <<x>>
  ELSE LET last == s[Len(s)]
       IN  IF varyLess(ns[x], ns[last])
             THEN InsertStable(ns, SubSeq(s, 1, Len(s) - 1), x) \o <<last>>
             ELSE s \o <<x>>

RECURSIVE SliceStable(_, _)
\* sort.SliceStable(s, varyLess)
SliceStable(ns, s) ==
  IF s = <<>> THEN <<>>
  ELSE InsertStable(ns, SliceStable(ns, SubSeq(s, 1, Len(s) - 1)), s[Len(s)])

\* the name, wildcard, suffix and regex parsed from a segment that starts
\* with ":"; panic covers the explicit panics, regexp.MustCompile's and the
\* index-out-of-range of name[len(name)-1] on an empty name
parseVary(segment) ==
  LET name0 == Slice(segment, 1, Len(segment))
      bad == [panic |-> TRUE, name |-> <<>>, wildcard |-> FALSE,
              suffix |-> <<>>, regex |-> NilRegex]
      done(name, wildcard, suffix, regex) ==
        IF ~wordReg(name) THEN bad
        ELSE [panic |-> FALSE, name |-> name, wildcard |-> wildcard,
              suffix |-> suffix, regex |-> regex]
  IN  IF Len(name0) = 0 THEN bad
      ELSE IF At(name0, Len(name0) - 1) = "*"
        THEN done(Slice(name0, 0, Len(name0) - 1), TRUE, <<>>, NilRegex)
      ELSE
        LET suffix == suffixRegFind(name0)
            name1 == IF suffix # <<>>
                       THEN Slice(name0, 0, Len(name0) - Len(suffix))
                       ELSE name0
            nodeSuffix == IF suffix # <<>> THEN Slice(suffix, 1, Len(suffix)) ELSE <<>>
        IN  IF suffix # <<>> /\ nodeSuffix = <<>> THEN bad
            ELSE IF Len(name1) = 0 THEN bad
            ELSE IF At(name1, Len(name1) - 1) = ")" /\ IndexRune(name1, "(") > 0
              THEN LET index == IndexRune(name1, "(")
                       regex == Slice(name1, index + 1, Len(name1) - 1)
                   IN  IF Len(regex) > 0
                         THEN IF RegexCompiles(regex)
                                THEN done(Slice(name1, 0, index), FALSE, nodeSuffix, regex)
                                ELSE bad
                         ELSE bad
            ELSE done(name1, FALSE, nodeSuffix, NilRegex)

RECURSIVE checkExists(_, _, _, _)
\* the "check if node exists" loop over list, from position k on, for the
\* new node: PanicNode, the existing child to return, or NilNode to go on
checkExists(ns, list, k, node) ==
  IF k > Len(list) THEN NilNode
  ELSE
    LET child == ns[list[k]]
    IN  IF child.wildcard
          THEN IF node.wildcard THEN PanicNode
               ELSE IF child.name # node.name THEN PanicNode
               ELSE list[k]
        ELSE IF child.suffix # node.suffix THEN checkExists(ns, list, k + 1, node)
        ELSE IF \/ node.wildcard /\ (child.regex = NilRegex /\ node.regex = NilRegex)
                \/ child.regex # NilRegex /\ node.regex # NilRegex /\ child.regex = node.regex
          THEN IF child.name # node.name THEN PanicNode ELSE list[k]
        ELSE checkExists(ns, list, k + 1, node)

\* the list the "check if node exists" loop ranges over: the varyChildren of
\* the node just allocated
existsLoopList(ns, parent, node) ==
  node.varyChildren

\* the result of parseNode / defineNode / Define: the arena afterwards, the
\* node returned, and whether the call panicked instead of returning
Ret(ns, node, panic) ==
  [nodes |-> ns, node |-> node, panic |-> panic]

\* parent.children[key] = node, for the freshly allocated node
linkChild(ns, parent, key, node) ==
  LET id == Len(ns) + 1
      ns1 == Append(ns, node)
  IN  Ret([ns1 EXCEPT ![parent].children = MapSet(@, key, id)], id, FALSE)

\* parent.varyChildren = append(parent.varyChildren, node), then the stable sort
linkVary(ns, parent, node) ==
  LET id == Len(ns) + 1
      ns1 == Append(ns, node)
      s == Append(ns[parent].varyChildren, id)
  IN  Ret([ns1 EXCEPT ![parent].varyChildren =
                        IF Len(s) > 1 THEN SliceStable(ns1, s) ELSE s], id, FALSE)

\* the key parseNode looks the segment up under: the segment without the
\* first colon of an escape, lower-cased when ignoreCase
originalSegmentOf(segment, ignoreCase) ==
  IF ignoreCase
    THEN ToLower(IF doubleColonReg(segment) THEN Slice(segment, 1, Len(segment)) ELSE segment)
    ELSE IF doubleColonReg(segment) THEN Slice(segment, 1, Len(segment)) ELSE segment

\* the end of the case segment[0] == ':' : what the "check if node exists"
\* loop found decides between a panic, the existing child and a new child
parseVaryFound(ns, parent, node, found) ==
  IF found = PanicNode THEN Ret(ns, NilNode, TRUE)
  ELSE IF found # NilNode THEN Ret(ns, found, FALSE)
  ELSE linkVary(ns, parent, node)

\* the case segment[0] == ':' of parseNode, v being the parsed segment
parseVaryNode(ns, parent, node, v) ==
  IF v.panic THEN Ret(ns, NilNode, TRUE)
  ELSE parseVaryFound(ns, parent,
         [node EXCEPT !.name = v.name, !.wildcard = v.wildcard,
                      !.suffix = v.suffix, !.regex = v.regex],
         checkExists(ns,
           existsLoopList(ns, parent,
             [node EXCEPT !.name = v.name, !.wildcard = v.wildcard,
                          !.suffix = v.suffix, !.regex = v.regex]),
           1,
           [node EXCEPT !.name = v.name, !.wildcard = v.wildcard,
                        !.suffix = v.suffix, !.regex = v.regex]))

\* parseNode once originalSegment is computed
parseNodeAt(ns, parent, segment, originalSegment) ==
  IF getChild(ns, parent, originalSegment) # NilNode
    THEN Ret(ns, getChild(ns, parent, originalSegment), FALSE)
  ELSE IF segment = <<>> THEN linkChild(ns, parent, segment, NewNode(segment, parent))
  ELSE IF doubleColonReg(segment)
    THEN linkChild(ns, parent, originalSegment, NewNode(segment, parent))
  ELSE IF At(segment, 0) = ":"
    THEN parseVaryNode(ns, parent, NewNode(segment, parent), parseVary(segment))
  ELSE IF At(segment, 0) \in {"*", "(", ")"} THEN Ret(ns, NilNode, TRUE)
  ELSE IF At(segment, Len(segment) - 1) = "*"
    THEN linkChild(ns, parent,
                   Slice(originalSegment, 0, Len(originalSegment) - 1),
                   [NewNode(segment, parent) EXCEPT !.wildcard = TRUE])
  ELSE linkChild(ns, parent, originalSegment, NewNode(segment, parent))

parseNode(ns, parent, segment, ignoreCase) ==
  parseNodeAt(ns, parent, segment, originalSegmentOf(segment, ignoreCase))

\* wildcardBlocks with the test left out
wildcardBlocksNever(child) ==
  FALSE

\* the test "child.wildcard" that stops a pattern from going on below a wildcard
wildcardBlocks(child) ==
  child.wildcard

RECURSIVE defineNode(_, _, _, _)
RECURSIVE defineChild(_, _, _)

\* defineNode after its call of parseNode, r being what that call gave
defineChild(r, segments, ignoreCase) ==
  IF r.panic THEN r
  ELSE IF Len(segments) = 0
    THEN Ret([r.nodes EXCEPT ![r.node].endpoint = TRUE], r.node, FALSE)
  ELSE IF wildcardBlocks(r.nodes[r.node]) THEN Ret(r.nodes, NilNode, TRUE)
  ELSE defineNode(r.nodes, r.node, segments, ignoreCase)

defineNode(ns, node, patternSeg, ignoreCase) ==
  defineChild(parseNode(ns, node, patternSeg[1], ignoreCase), Tail(patternSeg), ignoreCase)

\* the pattern without its leading "/" and without its query string
procPatternOf(pattern) ==
  IF IndexRune(TrimPrefix(pattern, <<"/">>), "?") # -1
    THEN Slice(TrimPrefix(pattern, <<"/">>), 0, IndexRune(TrimPrefix(pattern, <<"/">>), "?"))
    ELSE TrimPrefix(pattern, <<"/">>)

\* the end of Define: the node defineNode gave gets the pattern if it has none
definePattern(r, pattern) ==
  IF r.panic THEN r
  ELSE IF r.nodes[r.node].pattern = <<>>
    THEN Ret([r.nodes EXCEPT ![r.node].pattern = pattern], r.node, FALSE)
  ELSE r

\* Trie.Define
DefineOp(ns, pattern, ignoreCase) ==
  IF Contains(pattern, <<"/", "/">>) THEN Ret(ns, NilNode, TRUE)
  ELSE definePattern(
         defineNode(ns, RootNode, Split(procPatternOf(pattern), "/"), ignoreCase),
         pattern)

\* ------------------------------------------------------------------------
\* The matcher
\* ------------------------------------------------------------------------

fixPath(path) ==
  IF ~Contains(path, <<"/", "/">>) THEN path ELSE ReplaceMultiSlash(path)

\* matchVaryAccepts without the regex check
matchVaryAcceptsAnyText(child, segment) ==
  child.suffix # <<>> =>
    ~(segment = child.suffix \/ ~HasSuffix(segment, child.suffix))

\* the body of the loop of matchNode: child takes the segment
matchVaryAccepts(child, segment) ==
  LET originalSegment ==
        IF child.suffix # <<>>
          THEN Slice(segment, 0, Len(segment) - Len(child.suffix))
          ELSE segment
  IN  /\ child.suffix # <<>> =>
           ~(segment = child.suffix \/ ~HasSuffix(segment, child.suffix))
      /\ child.regex # NilRegex => RegexMatchString(child.regex, originalSegment)

RECURSIVE matchVary(_, _, _, _)
\* the loop of matchNode over parent.varyChildren, from position k on
matchVary(ns, list, k, segment) ==
  IF k > Len(list) THEN NilNode
  ELSE IF matchVaryAccepts(ns[list[k]], segment) THEN list[k]
  ELSE matchVary(ns, list, k + 1, segment)

\* matchNode trying the dynamic children before the literal one
matchNodeVaryFirst(ns, parent, segment) ==
  IF segment = <<>> THEN getChild(ns, parent, segment)
  ELSE IF matchVary(ns, ns[parent].varyChildren, 1, segment) # NilNode
    THEN matchVary(ns, ns[parent].varyChildren, 1, segment)
  ELSE getChild(ns, parent, segment)

matchNode(ns, parent, segment) ==
  IF getChild(ns, parent, segment) # NilNode \/ segment = <<>>
    THEN getChild(ns, parent, segment)
    ELSE matchVary(ns, ns[parent].varyChildren, 1, segment)

\* new(Matched); a nil Params map is the empty set of pairs
NewMatched ==
  [Node |-> NilNode, Params |-> {}, FPR |-> <<>>, TSR |-> <<>>, panic |-> FALSE]

\* pathFixed reporting a correction of every path
pathFixedAlways(o, fixedLen) ==
  TRUE

\* pathFixed never reporting a correction
pathFixedNever(o, fixedLen) ==
  FALSE

\* the test t.fpr && fixedLen > 0: fixPath shortened the requested path
pathFixed(o, fixedLen) ==
  o.fpr /\ fixedLen > 0

\* tsrAdded leaving the path as it is
tsrAddsNothing(path) ==
  path

\* the redirect target path + "/" of a trailing-slash addition
tsrAdded(path) ==
  path \o <<"/">>

\* the switch after the loop of Match
matchFinish(ns, o, path, fixedLen, parent, matched) ==
  IF ns[parent].endpoint
    THEN IF pathFixed(o, fixedLen)
           THEN [matched EXCEPT !.FPR = path, !.Node = NilNode]
           ELSE [matched EXCEPT !.Node = parent]
  ELSE IF o.tsr /\ getChild(ns, parent, <<>>) # NilNode
    THEN IF pathFixed(o, fixedLen)
           THEN [matched EXCEPT !.FPR = tsrAdded(path)]
           ELSE [matched EXCEPT !.TSR = tsrAdded(path)]
  ELSE matched

\* tsrRemoved cutting one character too many
tsrRemovedTooFar(path, end) ==
  Slice(path, 0, end - 2)

\* tsrRemoved keeping the trailing slash
tsrKeepsSlash(path, end) ==
  Slice(path, 0, end)

\* the redirect target path[:end-1] of a trailing-slash removal
tsrRemoved(path, end) ==
  Slice(path, 0, end - 1)

\* paramCapture taking the folded segment
paramCaptureFolded(segment, suffix) ==
  ToLower(IF suffix # <<>>
            THEN Slice(segment, 0, Len(segment) - Len(suffix))
            ELSE segment)

\* the value a named child that is no catch-all captures: the segment as
\* the path spells it, without the child's suffix
paramCapture(segment, suffix) ==
  IF suffix # <<>>
    THEN Slice(segment, 0, Len(segment) - Len(suffix))
    ELSE segment

\* wildcardCapture ending at the end of the segment
wildcardCaptureSegment(path, start, i, end) ==
  Slice(path, start, i)

\* the value path[start:end] a named catch-all reached at path[start:i] captures
wildcardCapture(path, start, i, end) ==
  Slice(path, start, end)

RECURSIVE matchLoop(_, _, _, _, _, _, _, _)
\* the for loop of Match from index i on
matchLoop(ns, o, path, fixedLen, i, start, parent, matched) ==
  LET end == Len(path)
  IN  IF i > end THEN matchFinish(ns, o, path, fixedLen, parent, matched)
      ELSE IF i < end /\ At(path, i) # "/"
        THEN matchLoop(ns, o, path, fixedLen, i + 1, start, parent, matched)
      ELSE
        LET segment == Slice(path, start, i)
            originalSegment == IF o.ignoreCase THEN ToLower(segment) ELSE segment
            node == matchNode(ns, parent, originalSegment)
        IN  IF node = NilNode
              THEN IF o.tsr /\ ns[parent].endpoint /\ i = end /\ segment = <<>>
                     THEN IF pathFixed(o, fixedLen)
                            THEN [matched EXCEPT !.FPR = tsrRemoved(path, end)]
                            ELSE [matched EXCEPT !.TSR = tsrRemoved(path, end)]
                     ELSE matched
            ELSE IF ns[node].name # <<>>
              THEN IF ns[node].wildcard
                     THEN matchFinish(ns, o, path, fixedLen, node,
                            [matched EXCEPT !.Params =
                               MapSet(@, ns[node].name,
                                      wildcardCapture(path, start, i, end))])
                     ELSE matchLoop(ns, o, path, fixedLen, i + 1, i + 1, node,
                            [matched EXCEPT !.Params =
                               MapSet(@, ns[node].name,
                                      paramCapture(segment, ns[node].suffix))])
            ELSE matchLoop(ns, o, path, fixedLen, i + 1, i + 1, node, matched)

\* Trie.Match
MatchOp(ns, o, path0) ==
  IF path0 = <<>> \/ At(path0, 0) # "/"
    THEN [NewMatched EXCEPT !.panic = TRUE]
    ELSE LET path == IF o.fpr THEN fixPath(path0) ELSE path0
             fixedLen == IF o.fpr THEN Len(path0) - Len(path) ELSE Len(path0)
         IN  matchLoop(ns, o, path, fixedLen, 1, 1, RootNode, NewMatched)

\* matchEnter without the check of the path
matchEnterUnchecked(o, w, path0) ==
  [w EXCEPT !.pc = "loop", !.path0 = path0,
            !.path = IF o.fpr THEN fixPath(path0) ELSE path0,
            !.fixedLen = IF o.fpr THEN Len(path0) - Len(fixPath(path0))
                                  ELSE Len(path0),
            !.i = 1, !.start = 1, !.parent = RootNode,
            !.matched = NewMatched]

\* the locals of Match before its for loop, or its return by panic
matchEnter(o, w, path0) ==
  IF path0 = <<>> \/ At(path0, 0) # "/"
    THEN [w EXCEPT !.pc = "done", !.path0 = path0,
                   !.matched = [NewMatched EXCEPT !.panic = TRUE]]
    ELSE [w EXCEPT !.pc = "loop", !.path0 = path0,
                   !.path = IF o.fpr THEN fixPath(path0) ELSE path0,
                   !.fixedLen = IF o.fpr THEN Len(path0) - Len(fixPath(path0))
                                         ELSE Len(path0),
                   !.i = 1, !.start = 1, !.parent = RootNode,
                   !.matched = NewMatched]

\* Match returns matched
matchReturns(w, matched) ==
  [w EXCEPT !.pc = "done", !.matched = matched]

\* the rest of a pass of the for loop once matchNode has answered node for
\* the segment
matchPicked(ns, o, w, segment, node) ==
  IF node = NilNode
    THEN IF o.tsr /\ ns[w.parent].endpoint /\ w.i = Len(w.path) /\ segment = <<>>
           THEN IF pathFixed(o, w.fixedLen)
                  THEN matchReturns(w, [w.matched EXCEPT
                                          !.FPR = tsrRemoved(w.path, Len(w.path))])
                  ELSE matchReturns(w, [w.matched EXCEPT
                                          !.TSR = tsrRemoved(w.path, Len(w.path))])
           ELSE matchReturns(w, w.matched)
  ELSE IF ns[node].name # <<>>
    THEN IF ns[node].wildcard
           THEN matchReturns(w,
                  matchFinish(ns, o, w.path, w.fixedLen, node,
                    [w.matched EXCEPT !.Params =
                       MapSet(@, ns[node].name,
                              wildcardCapture(w.path, w.start, w.i, Len(w.path)))]))
           ELSE [w EXCEPT !.i = @ + 1, !.start = w.i + 1, !.parent = node,
                          !.matched.Params =
                            MapSet(@, ns[node].name,
                                   paramCapture(segment, ns[node].suffix))]
  ELSE [w EXCEPT !.i = @ + 1, !.start = w.i + 1, !.parent = node]

\* one pass of the for loop of Match at index w.i, or the switch after the
\* loop when the loop condition fails
matchIter(ns, o, w) ==
  IF w.i > Len(w.path)
    THEN matchReturns(w, matchFinish(ns, o, w.path, w.fixedLen, w.parent, w.matched))
  ELSE IF w.i < Len(w.path) /\ At(w.path, w.i) # "/"
    THEN [w EXCEPT !.i = @ + 1]
  ELSE matchPicked(ns, o, w, Slice(w.path, w.start, w.i),
         matchNode(ns, w.parent,
                   IF o.ignoreCase THEN ToLower(Slice(w.path, w.start, w.i))
                                   ELSE Slice(w.path, w.start, w.i)))

\* ------------------------------------------------------------------------
\* Handlers
\* ------------------------------------------------------------------------

NilHandler == "nil"

GetHandler(n, method) ==
  MapGet(n.handlers, method, NilHandler)

GetAllow(n) ==
  n.allow

\* Node.Handle: the node afterwards, and whether the call panicked
HandleOp(n, method, handler) ==
  IF GetHandler(n, method) # NilHandler
    THEN [node |-> n, panic |-> TRUE]
    ELSE [node |-> [n EXCEPT !.handlers = MapSet(@, method, handler),
                             !.allow = IF @ = <<>> THEN method
                                       ELSE @ \o <<",", " ">> \o method],
          panic |-> FALSE]

\* ------------------------------------------------------------------------
\* The state machine
\* ------------------------------------------------------------------------

\* at most this many Define calls in a run
MaxDefines == 2

\* at most this many Handle calls in a run
MaxHandles == 2

\* defaultOptions, used by New()
defaultOptions ==
  [ignoreCase |-> TRUE, fpr |-> TRUE, tsr |-> TRUE]

\* every Options value New(opts) accepts
AllOptions ==
  [ignoreCase : BOOLEAN, fpr : BOOLEAN, tsr : BOOLEAN]

GET == <<"G", "E", "T">>

PUT == <<"P", "U", "T">>

Methods ==
  {GET, PUT}

Handlers ==
  {"h1", "h2", NilHandler}

\* the patterns handed to Define in the runs that build and match tries
TriePatterns ==
  { <<"/", "a">>,
    <<"/", "A">>,
    <<"/", "1">>,
    <<"/", "a", "/">>,
    <<"/", "a", "*">>,
    <<"/", ":", ":", "x">>,
    <<"/", ":", "x">>,
    <<"/", ":", "y">>,
    <<"/", ":", "x", "*">>,
    <<"/", ":", "y", "*">>,
    <<"/", ":", "x", "(", "^", "\\", "d", "+", "$", ")">>,
    <<"/", ":", "x", "+", "z">>,
    <<"/", ":", "x", "*", "/", "b">>,
    <<"/", "a", "/", "b">> }

\* the paths handed to Match in the runs that build and match tries
TriePaths ==
  { <<"/", "a">>,
    <<"/", "A">>,
    <<"/", "a", "/">>,
    <<"/", "1">>,
    <<"/", "1", "/">>,
    <<"/", "b">>,
    <<"/", "1", "z">>,
    <<"/", ":", "x">>,
    <<"/", "a", "/", "b">>,
    <<"/", "/", "a">>,
    <<"/", "a", "/", "/">>,
    <<"/">> }

\* the patterns handed to Define in the runs that also register handlers
RoutePatterns ==
  { <<"/", "a">>,
    <<"/", "A">>,
    <<"/", ":", "x">> }

\* the paths handed to Match in the runs that also register handlers
RoutePaths ==
  { <<"/", "a">>,
    <<"/", "b">> }

\* the patterns handed to Define in the runs that match parameters:
\* plain, catch-all, regex and suffix segments
ParamPatterns ==
  { <<"/", "a", "/", "b">>,
    <<"/", "a", "/", ":", "x">>,
    <<"/", ":", "x", "/", ":", "y">>,
    <<"/", ":", "x">>,
    <<"/", "a", "/", ":", "f", "*">>,
    <<"/", ":", "y", "(", "\\", "d", ")">>,
    <<"/", ":", "x", "(", "^", "\\", "d", "+", "$", ")">>,
    <<"/", ":", "x", "+", "z">>,
    <<"/", ":", "x", "+", "Z">>,
    <<"/", ":", "x", "(", "^", "\\", "d", "+", "$", ")", "+", "z">> }

\* the paths handed to Match in the runs that match parameters; the last
\* two do not start with "/"
ParamPaths ==
  { <<"/", "a">>,
    <<"/", "a", "/", "b">>,
    <<"/", "a", "/", "b", "/", "c">>,
    <<"/", "A", "/", "B">>,
    <<"/", "a", "/">>,
    <<"/", "a", "/", "/", "b">>,
    <<"/", "1">>,
    <<"/", "a", "1">>,
    <<"/", "1", "z">>,
    <<"/", "1", "Z">>,
    <<"/", "z">>,
    <<"/", "a", "z">>,
    <<>>,
    <<"a">> }

\* the patterns handed to Define in the runs on pattern shapes: malformed ones,
\* escaped literals and their unescaped spellings, one name at two levels
ShapePatterns ==
  { <<"/", "a", "/", "/", "b">>,
    <<"/", "*">>,
    <<"/", "(", "a">>,
    <<"/", ")", "a">>,
    <<"/", ":">>,
    <<"/", ":", "x", "-", "y">>,
    <<"/", ":", "x", "(", ")">>,
    <<"/", ":", "x", "+">>,
    <<"/", ":", ":">>,
    <<"/", ":", ":", "x", "-", "y">>,
    <<"/", ":", ":", "x", "+">>,
    <<"/", ":", ":", "x">>,
    <<"/", ":", "x">>,
    <<"/", ":", "x", "/", ":", "x">> }

\* the paths handed to Match in the runs on pattern shapes
ShapePaths ==
  { <<"/", ":", "x">>,
    <<"/", ":">>,
    <<"/", ":", "x", "-", "y">>,
    <<"/", ":", "X">>,
    <<"/", "a">>,
    <<"/", "A", "/", "b">> }

\* the patterns handed to Define in the runs on letter case
CasePatterns ==
  { <<"/", "a">>,
    <<"/", "A">>,
    <<"/", "a", "*">>,
    <<"/", "a", "/", "b">>,
    <<"/", "A", "/", "B">> }

\* the paths handed to Match in the runs on letter case
CasePaths ==
  { <<"/", "a">>,
    <<"/", "A">>,
    <<"/", "a", "/", "b">>,
    <<"/", "A", "/", "B">>,
    <<"/", "b">> }

\* the patterns handed to Define in the runs with concurrent Match calls
ConcPatterns ==
  { <<"/", "a">>,
    <<"/", "a", "/">>,
    <<"/", ":", "x">>,
    <<"/", "a", "/", ":", "f", "*">>,
    <<"/", ":", "x", "+", "z">> }

\* the paths handed to Match in the runs with concurrent Match calls; the
\* last two do not start with "/"
ConcPaths ==
  { <<"/", "a">>,
    <<"/", "a", "/">>,
    <<"/", "/", "a">>,
    <<"/", "a", "/", "b">>,
    <<"/", "1", "z">>,
    <<>>,
    <<"a">> }

\* The Method Router (spec.md 4.3, "Request-time resolution")

OPTIONS == <<"O", "P", "T", "I", "O", "N", "S">>

\* the outcome of a request: which terminal state it ended in, the status
\* the router itself responded with (0 when a handler was invoked instead),
\* the Allow header and the redirect target it set, the handler it invoked
Response(kind, status, allow, location, invoked) ==
  [kind |-> kind, status |-> status, allow |-> allow, location |-> location,
   invoked |-> invoked]

\* no request served yet
NoResponse ==
  Response("none", 0, <<>>, <<>>, NilHandler)

\* redirectStatus answering 301 whatever the method
redirectStatusPermanent(method) ==
  301

\* 301 for the safe read GET, 307 for every other method
redirectStatus(method) ==
  IF method = GET THEN 301 ELSE 307

\* no node was returned: redirect, fallback or 501
serveUnmatched(fallback, method, matched) ==
  IF matched.TSR # <<>> \/ matched.FPR # <<>>
    THEN Response("Redirect", redirectStatus(method), <<>>,
                  IF matched.FPR # <<>> THEN matched.FPR ELSE matched.TSR,
                  NilHandler)
  ELSE IF fallback # NilHandler
    THEN Response("Fallback", 0, <<>>, <<>>, fallback)
  ELSE Response("NotFound", 501, <<>>, <<>>, NilHandler)

\* serveNode without the automatic OPTIONS answer
serveNodeNoOptions(n, fallback, method) ==
  IF GetHandler(n, method) # NilHandler
    THEN Response("Dispatch", 0, <<>>, <<>>, GetHandler(n, method))
  ELSE IF fallback # NilHandler
    THEN Response("Fallback", 0, <<>>, <<>>, fallback)
  ELSE Response("MethodNotAllowed", 405, GetAllow(n), <<>>, NilHandler)

\* a node was returned: the handler of the exact request method, else the
\* automatic OPTIONS answer, the fallback or 405
serveNode(n, fallback, method) ==
  IF GetHandler(n, method) # NilHandler
    THEN Response("Dispatch", 0, <<>>, <<>>, GetHandler(n, method))
  ELSE IF method = OPTIONS
    THEN Response("OptionsAuto", 204, GetAllow(n), <<>>, NilHandler)
  ELSE IF fallback # NilHandler
    THEN Response("Fallback", 0, <<>>, <<>>, fallback)
  ELSE Response("MethodNotAllowed", 405, GetAllow(n), <<>>, NilHandler)

\* request-time resolution once the Matcher has answered
serveMatched(ns, fallback, method, matched) ==
  IF matched.Node = NilNode
    THEN serveUnmatched(fallback, method, matched)
    ELSE serveNode(ns[matched.Node], fallback, method)

\* request-time resolution, given method and path
ServeOp(ns, o, fallback, method, path) ==
  serveMatched(ns, fallback, method, MatchOp(ns, o, path))

\* the patterns of the routes in the runs that serve requests
RouterPatterns ==
  { <<"/", "a">>,
    <<"/", ":", "x", "/", "b">> }

\* the request paths in the runs that serve requests
RouterPaths ==
  { <<"/", "a">>,
    <<"/", "a", "/">>,
    <<"/", "/", "a">>,
    <<"/", "a", "/", "b">>,
    <<"/", "b", "/", "c">> }

\* the request methods in the runs that serve requests
RequestMethods ==
  {GET, PUT, OPTIONS}

\* the handlers of the routes in the runs that serve requests
RouteHandlers ==
  {"h1"}

\* the handlers router.Otherwise is given
Fallbacks ==
  {"fb"}

Patterns(sc) ==
  IF sc = "trie" THEN TriePatterns
  ELSE IF sc = "param" THEN ParamPatterns
  ELSE IF sc = "conc" THEN ConcPatterns
  ELSE IF sc = "router" THEN RouterPatterns
  ELSE IF sc = "shape" THEN ShapePatterns
  ELSE IF sc = "case" THEN CasePatterns
  ELSE RoutePatterns

\* the Define calls a run makes at most: one more in the runs on letter case,
\* whose patterns are few
DefineBound(sc) ==
  IF sc = "case" THEN MaxDefines + 1 ELSE MaxDefines

Paths(sc) ==
  IF sc = "trie" THEN TriePaths
  ELSE IF sc = "param" THEN ParamPaths
  ELSE IF sc = "conc" THEN ConcPaths
  ELSE IF sc = "router" THEN RouterPaths
  ELSE IF sc = "shape" THEN ShapePaths
  ELSE IF sc = "case" THEN CasePaths
  ELSE RoutePaths

VARIABLES
  nodes,     \* the arena of Nodes; nodes[RootNode] is Trie.root
  opts,      \* Trie.ignoreCase, Trie.fpr, Trie.tsr
  scen,      \* which inputs the run draws from
  last,      \* the call made last, with its arguments and its result
  routes,    \* the <<pattern, method, handler>> registered as Define(p).Handle(m, h)
  defined,   \* <<pattern, node>>: the node the first Define(pattern) that returned gave
  ndefine,   \* Define calls made
  nhandle,   \* Handle calls made
  walks,     \* per concurrent caller, the locals of its Match call in progress
  otherwise, \* the fallback handler of the Method Router, NilHandler when none
  response   \* the outcome of the request the Method Router served last

vars == <<nodes, opts, scen, last, routes, defined, ndefine, nhandle, walks,
          otherwise, response>>

\* the goroutines that call Match at the same time
Callers == {1, 2}

\* the locals of a Match call: pc is "idle" (no call), "loop" (in the for
\* loop, before the pass at index i) or "done" (Match is returning matched)
NewWalk ==
  [pc |-> "idle", path0 |-> <<>>, path |-> <<>>, fixedLen |-> 0, i |-> 0,
   start |-> 0, parent |-> NilNode, matched |-> NewMatched]

Call(op, arg, node, method, handler, panic, matched) ==
  [op |-> op, arg |-> arg, node |-> node, method |-> method,
   handler |-> handler, panic |-> panic, matched |-> matched]

\* New(opts...): a trie holding only the root
InitWith(sc, optionSet) ==
  /\ scen = sc
  /\ opts \in optionSet
  /\ nodes = <<NewRoot>>
  /\ last = Call("New", <<>>, RootNode, <<>>, NilHandler, FALSE, NewMatched)
  /\ routes = {}
  /\ defined = {}
  /\ ndefine = 0
  /\ nhandle = 0
  /\ walks = [c \in Callers |-> NewWalk]
  /\ otherwise = NilHandler
  /\ response = NoResponse

Init ==
  InitWith("routes", {defaultOptions})

InitTrie ==
  InitWith("trie", AllOptions)

InitParam ==
  InitWith("param", AllOptions)

InitConc ==
  InitWith("conc", AllOptions)

InitRouter ==
  InitWith("router", {defaultOptions})

InitShape ==
  InitWith("shape", AllOptions)

InitCase ==
  InitWith("case", AllOptions)

\* trie.Define(pattern)
Define(pattern) ==
  /\ ndefine < DefineBound(scen)
  /\ LET r == DefineOp(nodes, pattern, opts.ignoreCase)
     IN  /\ nodes' = r.nodes
         /\ last' = Call("Define", pattern, r.node, <<>>, NilHandler, r.panic, NewMatched)
         /\ defined' = IF ~r.panic /\ MapGet(defined, pattern, NilNode) = NilNode
                         THEN MapSet(defined, pattern, r.node)
                         ELSE defined
  /\ ndefine' = ndefine + 1
  /\ UNCHANGED <<opts, scen, routes, nhandle, walks, otherwise, response>>

\* n.Handle(method, handler) on a node some Define has returned
Handle(n, method, handler) ==
  /\ nhandle < MaxHandles
  /\ nodes[n].endpoint
  /\ LET r == HandleOp(nodes[n], method, handler)
     IN  /\ nodes' = [nodes EXCEPT ![n] = r.node]
         /\ last' = Call("Handle", <<>>, n, method, handler, r.panic, NewMatched)
         /\ routes' = IF last.op = "Define" /\ ~last.panic /\ last.node = n /\ ~r.panic
                        THEN routes \cup {<<last.arg, method, handler>>}
                        ELSE routes
  /\ nhandle' = nhandle + 1
  /\ UNCHANGED <<opts, scen, defined, ndefine, walks, otherwise, response>>

\* trie.Match(path)
Match(path) ==
  /\ nodes' = nodes
  /\ last' = Call("Match", path, NilNode, <<>>, NilHandler,
                  MatchOp(nodes, opts, path).panic, MatchOp(nodes, opts, path))
  /\ UNCHANGED <<opts, scen, routes, defined, ndefine, nhandle, walks, otherwise, response>>

\* caller c enters trie.Match(path): the checks and assignments before the
\* for loop
MatchBegin(c, path) ==
  /\ walks[c].pc = "idle"
  /\ walks' = [walks EXCEPT ![c] = matchEnter(opts, walks[c], path)]
  /\ UNCHANGED <<nodes, opts, scen, last, routes, defined, ndefine, nhandle, otherwise, response>>

\* MatchIterate writing to the node it stands on
MatchIterateWriting(c) ==
  /\ walks[c].pc = "loop"
  /\ walks' = [walks EXCEPT ![c] = matchIter(nodes, opts, walks[c])]
  /\ nodes' = [nodes EXCEPT ![walks[c].parent].endpoint = FALSE]
  /\ UNCHANGED <<opts, scen, last, routes, defined, ndefine, nhandle, otherwise, response>>

\* caller c makes one pass of the for loop of its Match call, or leaves the
\* loop and goes through the switch after it
MatchIterate(c) ==
  /\ walks[c].pc = "loop"
  /\ walks' = [walks EXCEPT ![c] = matchIter(nodes, opts, walks[c])]
  /\ UNCHANGED <<nodes, opts, scen, last, routes, defined, ndefine, nhandle, otherwise, response>>

\* the Match call of caller c returns (or panics): its locals are gone
MatchReturn(c) ==
  /\ walks[c].pc = "done"
  /\ walks' = [walks EXCEPT ![c] = NewWalk]
  /\ UNCHANGED <<nodes, opts, scen, last, routes, defined, ndefine, nhandle, otherwise, response>>

\* the node of a returned Define after Handle(method, handler) on it
routeNodes(ns, n, method, handler) ==
  [ns EXCEPT ![n] = HandleOp(ns[n], method, handler).node]

\* the router registers the triple (method, pattern, handler): it compiles
\* the pattern and attaches the handler to the node under the method
Route(method, pattern, handler) ==
  /\ ndefine < MaxDefines
  /\ nodes' = IF DefineOp(nodes, pattern, opts.ignoreCase).panic
                THEN DefineOp(nodes, pattern, opts.ignoreCase).nodes
                ELSE routeNodes(DefineOp(nodes, pattern, opts.ignoreCase).nodes,
                                DefineOp(nodes, pattern, opts.ignoreCase).node,
                                method, handler)
  /\ last' = Call("Route", pattern, DefineOp(nodes, pattern, opts.ignoreCase).node,
                  method, handler,
                  DefineOp(nodes, pattern, opts.ignoreCase).panic, NewMatched)
  /\ ndefine' = ndefine + 1
  /\ UNCHANGED <<opts, scen, routes, defined, nhandle, walks, otherwise, response>>

\* router.Otherwise(handler): the fallback handler, set once
Otherwise(handler) ==
  /\ otherwise = NilHandler
  /\ otherwise' = handler
  /\ last' = Call("Otherwise", <<>>, NilNode, <<>>, handler, FALSE, NewMatched)
  /\ UNCHANGED <<nodes, opts, scen, routes, defined, ndefine, nhandle, walks,
                 response>>

\* the router serves one request
Serve(method, path) ==
  /\ response' = ServeOp(nodes, opts, otherwise, method, path)
  /\ last' = Call("Serve", path, MatchOp(nodes, opts, path).Node, method,
                  ServeOp(nodes, opts, otherwise, method, path).invoked,
                  FALSE, MatchOp(nodes, opts, path))
  /\ UNCHANGED <<nodes, opts, scen, routes, defined, ndefine, nhandle, walks,
                 otherwise>>

DefineStep ==
  \E pattern \in Patterns(scen) : Define(pattern)

HandleStep ==
  \E n \in 1..Len(nodes), method \in Methods, handler \in Handlers :
    Handle(n, method, handler)

MatchStep ==
  \E path \in Paths(scen) : Match(path)

Next ==
  \/ DefineStep
  \/ HandleStep
  \/ MatchStep

NextTrie ==
  \/ DefineStep
  \/ MatchStep

\* registration, single-threaded, while no Match call is in progress
BuildStep ==
  /\ \A c \in Callers : walks[c].pc = "idle"
  /\ DefineStep

MatchBeginStep ==
  \E c \in Callers, path \in Paths(scen) : MatchBegin(c, path)

MatchIterateStep ==
  \E c \in Callers : MatchIterate(c)

MatchReturnStep ==
  \E c \in Callers : MatchReturn(c)

OtherwiseStep ==
  \E handler \in Fallbacks : Otherwise(handler)

ServeStep ==
  \E method \in RequestMethods, path \in Paths(scen) : Serve(method, path)

RouteStep ==
  \E method \in Methods, pattern \in Patterns(scen), handler \in RouteHandlers :
    Route(method, pattern, handler)

NextRouter ==
  \/ RouteStep
  \/ OtherwiseStep
  \/ ServeStep

NextConc ==
  \/ BuildStep
  \/ MatchBeginStep
  \/ MatchIterateStep
  \/ MatchReturnStep

\* tries with handlers, under the default options
Spec ==
  Init /\ [][Next]_vars

\* tries built and matched under every option setting
SpecTrie ==
  InitTrie /\ [][NextTrie]_vars

\* tries with parameter patterns, built and matched under every option setting
SpecParam ==
  InitParam /\ [][NextTrie]_vars

\* tries of malformed and escaped patterns, under every option setting
SpecShape ==
  InitShape /\ [][NextTrie]_vars

\* tries of literal patterns that differ in letter case, under every option
\* setting
SpecCase ==
  InitCase /\ [][NextTrie]_vars

\* routes registered and requests served, under the default options
SpecRouter ==
  InitRouter /\ [][NextRouter]_vars

\* tries matched by two callers at a time, their Match calls interleaved
\* pass by pass
SpecConc ==
  InitConc /\ [][NextConc]_vars

\* ------------------------------------------------------------------------
\* Properties
\* ------------------------------------------------------------------------

NodeIds ==
  1..Len(nodes)

\* the children and varyChildren of every node
Structure(ns) ==
  [i \in 1..Len(ns) |-> <<ns[i].children, ns[i].varyChildren>>]

\* the varyChildren of node n, as a set of nodes
VarySet(n) ==
  {nodes[n].varyChildren[k] : k \in 1..Len(nodes[n].varyChildren)}

\* a named catch-all child `:name*`
IsCatchAll(c) ==
  nodes[c].wildcard /\ nodes[c].name # <<>>

\* C1: Define is idempotent: a Define(p) made after an earlier Define(p) has
\* returned, returns the node that first call returned and leaves the
\* children and varyChildren of every node as they were.
C1_DefineIdempotent ==
  [][ ( /\ ndefine' = ndefine + 1
        /\ MapGet(defined, last'.arg, NilNode) # NilNode )
      => ( /\ ~last'.panic
           /\ last'.node = MapGet(defined, last'.arg, NilNode)
           /\ Structure(nodes') = Structure(nodes) ) ]_vars

\* C2: handlers registered for one pattern p under distinct methods by
\* separate Define(p).Handle(m, h) calls sit on one node: a Match that yields
\* a node of pattern p yields a node that holds both handlers.
C2_HandlersOnOneNode ==
  (last.op = "Match" /\ last.matched.Node # NilNode) =>
    \A r1 \in routes, r2 \in routes :
      ( /\ r1[1] = nodes[last.matched.Node].pattern
        /\ r2[1] = r1[1]
        /\ r1[2] # r2[2]
        /\ r1[3] # NilHandler
        /\ r2[3] # NilHandler
        /\ \A r \in routes : (r[1] = r1[1] /\ r[2] \in {r1[2], r2[2]}) => r \in {r1, r2} )
      => ( /\ GetHandler(nodes[last.matched.Node], r1[2]) = r1[3]
           /\ GetHandler(nodes[last.matched.Node], r2[2]) = r2[3] )

\* C3: a (method, node) pair is registered at most once: a Handle(m, h2) on a
\* node on which a Handle(m, h1) has returned panics and leaves the node's
\* handlers and allow as they were.
C3_HandleOnce ==
  [][ ( /\ nhandle' = nhandle + 1
        /\ \E e \in nodes[last'.node].handlers : e[1] = last'.method )
      => ( /\ last'.panic
           /\ nodes'[last'.node].handlers = nodes[last'.node].handlers
           /\ nodes'[last'.node].allow = nodes[last'.node].allow ) ]_vars

\* C4: every node has at most one wildcard child among its dynamic children
\* (a Define that would add a second one panics before linking it).
C4_OneWildcardChild ==
  \A n \in NodeIds :
    Cardinality({c \in VarySet(n) : nodes[c].wildcard}) <= 1

\* C5: two dynamic children of one parent never have the same shape (same
\* wildcard flag, same suffix, same regex source or both without regex): a
\* Define of an existing shape panics or returns the existing child.
C5_DistinctShapes ==
  \A n \in NodeIds : \A c1 \in VarySet(n), c2 \in VarySet(n) :
    ( /\ nodes[c1].wildcard = nodes[c2].wildcard
      /\ nodes[c1].suffix = nodes[c2].suffix
      /\ nodes[c1].regex = nodes[c2].regex ) => c1 = c2

\* a segment that parseNode makes, or finds to be, a wildcard node
\* (`:name*` or `text*`, not the escaped `::text*`)
WildcardSegment(seg) ==
  /\ seg # <<>>
  /\ ~doubleColonReg(seg)
  /\ At(seg, Len(seg) - 1) = "*"

\* the pattern has a segment behind a wildcard segment
ContinuesPastWildcard(pattern) ==
  LET segs == Split(TrimPrefix(pattern, <<"/">>), "/")
  IN  \E k \in 1..(Len(segs) - 1) : WildcardSegment(segs[k])

C7_WildcardLast ==
  \A n \in NodeIds : \A i \in 1..Len(nodes[n].varyChildren), j \in 1..Len(nodes[n].varyChildren) :
    (i < j /\ nodes[nodes[n].varyChildren[i]].wildcard)
      => nodes[nodes[n].varyChildren[j]].wildcard

\* the path Match walks: collapsed when FixedPathRedirect is on
WalkedPath(path) ==
  IF opts.fpr THEN fixPath(path) ELSE path

\* the segments of the walked path, folded as Match folds them
WalkedSegments(path) ==
  LET segs == Split(Tail(WalkedPath(path)), "/")
  IN  [k \in 1..Len(segs) |-> IF opts.ignoreCase THEN ToLower(segs[k]) ELSE segs[k]]

\* child c is regex-constrained and accepts the segment
RegexChildAccepts(c, seg) ==
  nodes[c].regex # NilRegex /\ matchVaryAccepts(nodes[c], seg)

RECURSIVE LiteralWalk(_, _)
\* the node reached from n through literal children only, or NilNode
LiteralWalk(n, segs) ==
  IF segs = <<>> THEN n
  ELSE IF getChild(nodes, n, segs[1]) = NilNode THEN NilNode
  ELSE LiteralWalk(getChild(nodes, n, segs[1]), Tail(segs))

\* C9: exact routes come before parameter routes: when every segment of the
\* path is the key of a literal child along the way, Match follows the
\* literal children whatever dynamic siblings they have: it captures no
\* parameter and, when the node reached is an endpoint and the path was not
\* corrected, returns that node.
C9_ExactFirst ==
  (last.op = "Match" /\ ~last.panic /\ LiteralWalk(RootNode, WalkedSegments(last.arg)) # NilNode)
    => /\ last.matched.Params = {}
       /\ ( /\ nodes[LiteralWalk(RootNode, WalkedSegments(last.arg))].endpoint
            /\ WalkedPath(last.arg) = last.arg )
          => last.matched.Node = LiteralWalk(RootNode, WalkedSegments(last.arg))

\* C9 witness: Match returned a literal child of the root although a dynamic
\* sibling accepts the segment too.
C9_Witness ==
  /\ last.op = "Match"
  /\ last.matched.Node # NilNode
  /\ nodes[last.matched.Node].parent = RootNode
  /\ \E e \in nodes[RootNode].children : e[2] = last.matched.Node
  /\ \E c \in VarySet(RootNode) :
       /\ matchVaryAccepts(nodes[c], WalkedSegments(last.arg)[1])
       /\ c < last.matched.Node

\* the path without its last character
DropLast(path) ==
  Slice(path, 0, Len(path) - 1)

\* the case of C10: TrailingSlashRedirect is on, the path is q + "/" and Match
\* collapses no slash of it, q reaches an endpoint that has no empty-segment
\* child
TrailingSlashCase ==
  /\ last.op = "Match"
  /\ opts.tsr
  /\ Len(last.arg) >= 2
  /\ At(last.arg, Len(last.arg) - 1) = "/"
  /\ WalkedPath(last.arg) = last.arg
  /\ MatchOp(nodes, opts, DropLast(last.arg)).Node # NilNode
  /\ getChild(nodes, MatchOp(nodes, opts, DropLast(last.arg)).Node, <<>>) = NilNode

\* C10 as claimed: in that case Match(q + "/") returns no node and TSR = q.
C10_TrailingSlashRemoved_Claimed ==
  TrailingSlashCase =>
    (last.matched.Node = NilNode /\ last.matched.TSR = DropLast(last.arg))

\* C10, amended: in that case, when the endpoint q reaches is not a named
\* catch-all, Match(q + "/") returns no node, TSR = q and no FPR.
C10_TrailingSlashRemoved ==
  (TrailingSlashCase /\ ~IsCatchAll(MatchOp(nodes, opts, DropLast(last.arg)).Node))
    => /\ last.matched.Node = NilNode
       /\ last.matched.TSR = DropLast(last.arg)
       /\ last.matched.FPR = <<>>

\* C10 witness: such a Match has returned a trailing-slash redirect.
C10_Witness ==
  /\ TrailingSlashCase
  /\ ~IsCatchAll(MatchOp(nodes, opts, DropLast(last.arg)).Node)
  /\ last.matched.TSR = DropLast(last.arg)
  /\ last.matched.TSR # <<>>

RECURSIVE Landing(_, _)
\* the node the walk of Match lands on from n over the folded segments: the
\* child matchNode picks at every segment, the walk ending at a named
\* catch-all; NilNode when some segment finds no child
Landing(n, segs) ==
  IF segs = <<>> THEN n
  ELSE IF matchNode(nodes, n, segs[1]) = NilNode THEN NilNode
  ELSE IF IsCatchAll(matchNode(nodes, n, segs[1])) THEN matchNode(nodes, n, segs[1])
  ELSE Landing(matchNode(nodes, n, segs[1]), Tail(segs))

\* the case of C11: TrailingSlashRedirect is on and the walk consumes the
\* whole path and lands on a node that is no endpoint but has an
\* empty-segment child
SlashMissingCase ==
  /\ last.op = "Match"
  /\ ~last.panic
  /\ opts.tsr
  /\ Landing(RootNode, WalkedSegments(last.arg)) # NilNode
  /\ ~nodes[Landing(RootNode, WalkedSegments(last.arg))].endpoint
  /\ getChild(nodes, Landing(RootNode, WalkedSegments(last.arg)), <<>>) # NilNode

\* C11: trailing-slash addition: in that case Match(q) returns no node and
\* TSR = q + "/" with an empty FPR; when slash collapsing corrected the path
\* the target, the corrected path + "/", is in FPR instead and TSR is empty.
C11_TrailingSlashAdded ==
  SlashMissingCase =>
    /\ last.matched.Node = NilNode
    /\ IF WalkedPath(last.arg) = last.arg
         THEN /\ last.matched.TSR = last.arg \o <<"/">>
              /\ last.matched.FPR = <<>>
         ELSE /\ last.matched.FPR = ReplaceMultiSlash(last.arg) \o <<"/">>
              /\ last.matched.TSR = <<>>

\* C11 witness: Match has answered a path that lacks the trailing slash of
\* the registered pattern with the redirect to path + "/".
C11_Witness ==
  /\ SlashMissingCase
  /\ WalkedPath(last.arg) = last.arg
  /\ last.matched.TSR = last.arg \o <<"/">>

\* C11 second witness state: the same redirect for a path with doubled
\* slashes, reported in FPR.
C11_WitnessFixed ==
  /\ SlashMissingCase
  /\ WalkedPath(last.arg) # last.arg
  /\ last.matched.FPR # <<>>

\* the case of C12: FixedPathRedirect is on and the path handed to Match
\* holds two '/' in a row
DoubledSlashCase ==
  /\ last.op = "Match"
  /\ ~last.panic
  /\ opts.fpr
  /\ Contains(last.arg, <<"/", "/">>)

\* C12: fixed-path redirect: with FixedPathRedirect on, a path with
\* consecutive slashes never yields a node, and when its collapsed form
\* reaches an endpoint Match returns FPR = the collapsed path and no TSR.
C12_FixedPathRedirect ==
  DoubledSlashCase =>
    /\ last.matched.Node = NilNode
    /\ MatchOp(nodes, opts, ReplaceMultiSlash(last.arg)).Node # NilNode
         => /\ last.matched.FPR = ReplaceMultiSlash(last.arg)
            /\ last.matched.TSR = <<>>

\* C12 witness: Match has answered a path with doubled slashes whose
\* collapsed form reaches an endpoint with the redirect to the collapsed path.
C12_Witness ==
  /\ DoubledSlashCase
  /\ MatchOp(nodes, opts, ReplaceMultiSlash(last.arg)).Node # NilNode
  /\ last.matched.FPR = ReplaceMultiSlash(last.arg)
  /\ last.matched.FPR # last.arg

RECURSIVE RegexFullHere(_, _, _, _)
\* the atoms of re from position k on match s from position j up to its
\* very end
RegexFullHere(re, k, s, j) ==
  IF k > Len(re) \/ re[k] = "$" THEN j > Len(s)
  ELSE LET w == IF re[k] = "\\" THEN 2 ELSE 1
           plus == k + w <= Len(re) /\ re[k + w] = "+"
       IN  IF plus
             THEN \E n \in 1..(Len(s) - j + 1) :
                    /\ \A i \in j..(j + n - 1) : RegexAtomMatch(re, k, s[i])
                    /\ RegexFullHere(re, k + w + 1, s, j + n)
             ELSE /\ j <= Len(s)
                  /\ RegexAtomMatch(re, k, s[j])
                  /\ RegexFullHere(re, k + w, s, j + 1)

\* the whole of s matches re, from its first character to its last
RegexFullMatch(re, s) ==
  RegexFullHere(re, IF re[1] = "^" THEN 2 ELSE 1, s, 1)

\* re is anchored at both ends
RegexAnchored(re) ==
  re[1] = "^" /\ re[Len(re)] = "$"

\* the text a dynamic child checks against its regex and captures: the
\* segment without the child's suffix
Captured(c, seg) ==
  IF nodes[c].suffix # <<>> /\ Len(seg) >= Len(nodes[c].suffix)
    THEN Slice(seg, 0, Len(seg) - Len(nodes[c].suffix))
    ELSE seg

\* Match has just walked a path whose only segment was taken by the
\* regex-constrained child c of the root
RegexChildTook(c) ==
  /\ last.op = "Match"
  /\ ~last.panic
  /\ c \in VarySet(RootNode)
  /\ nodes[c].regex # NilRegex
  /\ Len(WalkedSegments(last.arg)) = 1
  /\ Landing(RootNode, WalkedSegments(last.arg)) = c

RawSegments(path) ==
  Split(Tail(WalkedPath(path)), "/")

\* s folded as the trie's IgnoreCase option folds path segments
Folded(s) ==
  IF opts.ignoreCase THEN ToLower(s) ELSE s

\* the segment ends with the suffix declared for child c, is longer than it
\* and what precedes the suffix satisfies the regex of c, if any; letters
\* compare without case when IgnoreCase is on
SuffixFits(c, seg) ==
  /\ Len(seg) > Len(nodes[c].suffix)
  /\ HasSuffix(Folded(seg), Folded(nodes[c].suffix))
  /\ nodes[c].regex # NilRegex =>
       RegexMatchString(nodes[c].regex,
                        Folded(Slice(seg, 0, Len(seg) - Len(nodes[c].suffix))))

\* Match has just walked a one-segment path in a trie whose root has the
\* suffix-qualified child c and no other child
SuffixChildAlone(c) ==
  /\ last.op = "Match"
  /\ ~last.panic
  /\ nodes[RootNode].children = {}
  /\ nodes[RootNode].varyChildren = <<c>>
  /\ nodes[c].suffix # <<>>
  /\ WalkedPath(last.arg) = last.arg
  /\ Len(RawSegments(last.arg)) = 1

\* C14: a suffix-qualified child takes exactly the segments that end with
\* its declared suffix and are longer than it (and satisfy its regex), and
\* Params[name] is then the segment without the suffix.
C14_SuffixMatches ==
  \A c \in NodeIds :
    SuffixChildAlone(c) =>
      /\ (last.matched.Node = c) <=> SuffixFits(c, RawSegments(last.arg)[1])
      /\ last.matched.Node = c =>
           last.matched.Params =
             {<<nodes[c].name,
                Slice(RawSegments(last.arg)[1], 0,
                      Len(RawSegments(last.arg)[1]) - Len(nodes[c].suffix))>>}

RECURSIVE JoinSlash(_)
\* the segments put together again, with a "/" between two of them
JoinSlash(segs) ==
  IF Len(segs) = 0 THEN <<>>
  ELSE IF Len(segs) = 1 THEN segs[1]
  ELSE segs[1] \o <<"/">> \o JoinSlash(Tail(segs))

\* Match has just walked a path whose k-th segment is where the walk reaches
\* the named catch-all child w
CatchAllAt(w, k) ==
  /\ last.op = "Match"
  /\ ~last.panic
  /\ k \in 1..Len(WalkedSegments(last.arg))
  /\ Landing(RootNode, SubSeq(WalkedSegments(last.arg), 1, k - 1)) # NilNode
  /\ ~IsCatchAll(Landing(RootNode, SubSeq(WalkedSegments(last.arg), 1, k - 1)))
  /\ Landing(RootNode, SubSeq(WalkedSegments(last.arg), 1, k)) = w
  /\ IsCatchAll(w)

C15_WitnessParent ==
  /\ last.op = "Match"
  /\ ~last.panic
  /\ Landing(RootNode, WalkedSegments(last.arg)) # NilNode
  /\ \E w \in VarySet(Landing(RootNode, WalkedSegments(last.arg))) : IsCatchAll(w)
  /\ last.matched.Node = NilNode

\* a plain pattern segment: a literal of word characters, or `:name`
IsPlainSegment(seg) ==
  /\ seg # <<>>
  /\ IF seg[1] = ":" THEN wordReg(Tail(seg)) ELSE wordReg(seg)

\* the segments of a pattern
PatternSegments(pattern) ==
  Split(Tail(pattern), "/")

\* Match has just walked a path in a trie that holds only the pattern, and
\* every segment of the pattern is plain
OnlyPlainPattern(pattern) ==
  /\ last.op = "Match"
  /\ ~last.panic
  /\ ndefine = 1
  /\ \E e \in defined : e[1] = pattern /\ defined = {e}
  /\ \A k \in 1..Len(PatternSegments(pattern)) : IsPlainSegment(PatternSegments(pattern)[k])

\* the path segments agree with the literal segments of the pattern
LiteralsAgree(pattern, segs) ==
  \A k \in 1..Len(segs) :
    PatternSegments(pattern)[k][1] # ":" =>
      Folded(segs[k]) = Folded(PatternSegments(pattern)[k])

\* the Params a path of as many segments as the pattern yields
PlainParams(pattern, segs) ==
  {<<Tail(PatternSegments(pattern)[k]), segs[k]>> :
     k \in {j \in 1..Len(segs) : PatternSegments(pattern)[j][1] = ":"}}

\* the requested path has no empty segment: no doubled and no trailing slash
NoEmptySegment(path) ==
  \A k \in 1..Len(Split(Tail(path), "/")) : Split(Tail(path), "/")[k] # <<>>

\* the outcome C16 gives a path of the given segments
PlainOutcome(pattern, segs) ==
  IF Len(segs) = Len(PatternSegments(pattern)) /\ LiteralsAgree(pattern, segs)
    THEN /\ last.matched.Node = MapGet(defined, pattern, NilNode)
         /\ last.matched.Node # NilNode
         /\ last.matched.Params = PlainParams(pattern, segs)
         /\ last.matched.TSR = <<>>
         /\ last.matched.FPR = <<>>
    ELSE /\ last.matched.Node = NilNode
         /\ last.matched.TSR = <<>>
         /\ last.matched.FPR = <<>>

\* the segments that are not empty
NonEmpty(segs) ==
  SelectSeq(segs, LAMBDA seg : seg # <<>>)

\* C16 as claimed: in a trie holding only a pattern of k plain segments, a
\* path of k segments (agreeing with the literal ones) yields the endpoint
\* and the Params of its named segments, every other path yields no node,
\* no TSR and no FPR; the segments of the path counted with or without the
\* empty ones.
C16_ExactlyKSegments_Claimed ==
  \A pattern \in Patterns(scen) :
    OnlyPlainPattern(pattern) =>
      \/ PlainOutcome(pattern, Split(Tail(last.arg), "/"))
      \/ PlainOutcome(pattern, NonEmpty(Split(Tail(last.arg), "/")))

\* C16, amended: the same for the paths that have no empty segment, that is
\* no doubled and no trailing slash.
C16_ExactlyKSegments ==
  \A pattern \in Patterns(scen) :
    (OnlyPlainPattern(pattern) /\ NoEmptySegment(last.arg)) =>
      PlainOutcome(pattern, Split(Tail(last.arg), "/"))

\* C16 witness: Match has returned the endpoint of the only pattern, which
\* has a named segment, for a path of as many segments.
C16_Witness ==
  \E pattern \in Patterns(scen) :
    /\ OnlyPlainPattern(pattern)
    /\ NoEmptySegment(last.arg)
    /\ last.matched.Node # NilNode
    /\ last.matched.Params # {}
    /\ Len(PatternSegments(pattern)) = 2

\* C16 second witness state: a path of more segments than the only pattern
\* has got no node.
C16_WitnessLonger ==
  \E pattern \in Patterns(scen) :
    /\ OnlyPlainPattern(pattern)
    /\ NoEmptySegment(last.arg)
    /\ Len(Split(Tail(last.arg), "/")) > Len(PatternSegments(pattern))
    /\ last.matched.Node = NilNode

\* the methods node n holds a handler entry for
HandledMethods(n) ==
  {e[1] : e \in nodes[n].handlers}

\* the orders in which the methods of S can have been registered
Orders(S) ==
  {p \in [1..Cardinality(S) -> S] : \A i, j \in 1..Cardinality(S) : p[i] = p[j] => i = j}

RECURSIVE JoinComma(_)
\* the methods put together with ", " between two of them
JoinComma(p) ==
  IF Len(p) = 0 THEN <<>>
  ELSE IF Len(p) = 1 THEN p[1]
  ELSE p[1] \o <<",", " ">> \o JoinComma(Tail(p))

\* C17: for every node GetAllow() lists the methods the node holds a
\* handler entry for, each exactly once, joined by ", " (in the order of
\* their registration, one of the orders of these methods).
C17_AllowListsMethods ==
  \A n \in NodeIds :
    \E p \in Orders(HandledMethods(n)) : GetAllow(nodes[n]) = JoinComma(p)

\* C18: Match never mutates the trie: no step of a Match call changes a
\* node or the options, and whatever the other caller does meanwhile a
\* Match call returns what Match returns when run alone on that trie.
C18_MatchReadOnly ==
  [][ /\ (walks' # walks \/ (last'.op = "Match" /\ last' # last))
           => (nodes' = nodes /\ opts' = opts)
      /\ \A c \in Callers :
           walks'[c].pc = "done"
             => walks'[c].matched = MatchOp(nodes', opts', walks'[c].path0) ]_vars

\* C18 witness: one caller's Match call returns a node while the other
\* caller is in the middle of the loop of its own call.
C18_Witness ==
  \E c, d \in Callers :
    /\ c # d
    /\ walks[c].pc = "done"
    /\ walks[c].matched.Node # NilNode
    /\ walks[d].pc = "loop"
    /\ walks[d].i > 1
    /\ walks[d].parent # RootNode

\* node n is held by its parent, in children or in varyChildren
HeldByParent(n) ==
  /\ nodes[n].parent # NilNode
  /\ \/ \E e \in nodes[nodes[n].parent].children : e[2] = n
     \/ n \in VarySet(nodes[n].parent)

RECURSIVE Reachable(_)
\* node n is reachable from the root through children and varyChildren
Reachable(n) ==
  n = RootNode \/ (HeldByParent(n) /\ Reachable(nodes[n].parent))

\* every Define call so far has returned, each for another pattern
AllDefinesReturned ==
  Cardinality(defined) = ndefine

\* C19: nodes are never removed: after Define calls that all returned, the
\* node each of them returned is still held by its parent and reachable
\* from the root.
C19_NodesNeverRemoved ==
  AllDefinesReturned => \A e \in defined : Reachable(e[2])

\* Match panics on this path: it is empty or does not start with "/"
BadPath(path) ==
  path = <<>> \/ path[1] # "/"

\* the Go expression s[a:b] does not panic
SliceInRange(s, a, b) ==
  0 <= a /\ a <= b /\ b <= Len(s)

\* the pass of the for loop that the walk w is about to make indexes and
\* slices within range and dereferences no nil node
PassInRange(w) ==
  /\ w.parent \in NodeIds
  /\ w.i >= 1
  /\ w.i <= Len(w.path) =>
       /\ SliceInRange(w.path, w.start, w.i)
       /\ SliceInRange(w.path, w.start, Len(w.path))
       /\ SliceInRange(w.path, 0, Len(w.path) - 1)
       /\ LET segment == Slice(w.path, w.start, w.i)
               node == matchNode(nodes, w.parent, Folded(segment))
           IN  (w.i = Len(w.path) \/ At(w.path, w.i) = "/")
                 => /\ node \in NodeIds \cup {NilNode}
                    /\ \A k \in 1..Len(nodes[w.parent].varyChildren) :
                         HasSuffix(Folded(segment), nodes[nodes[w.parent].varyChildren[k]].suffix)
                           => SliceInRange(segment, 0,
                                Len(segment) - Len(nodes[nodes[w.parent].varyChildren[k]].suffix))

\* C20: Match panics exactly when the path is empty or does not start with
\* "/": a call that returns has panicked exactly for such a path, and a call
\* in its loop never indexes or slices out of range nor follows a nil node,
\* under every option setting.
C20_PanicsOnlyOnBadPath ==
  \A c \in Callers :
    /\ walks[c].pc = "done" => (walks[c].matched.panic <=> BadPath(walks[c].path0))
    /\ walks[c].pc = "loop" => (~BadPath(walks[c].path0) /\ PassInRange(walks[c]))

\* C20 witness: one call has panicked for a path without the leading "/"
\* while another, for a path with a suffix parameter, is in its loop.
C20_Witness ==
  \E c, d \in Callers :
    /\ walks[c].pc = "done"
    /\ walks[c].matched.panic
    /\ walks[d].pc = "loop"
    /\ walks[d].matched.Params # {}

\* the router has just served a request whose path matched a node that
\* holds no handler for the request method
NoHandlerCase ==
  /\ last.op = "Serve"
  /\ last.matched.Node # NilNode
  /\ \A e \in nodes[last.matched.Node].handlers :
       e[1] = last.method => e[2] = NilHandler

\* the Allow header names every method registered on the matched node
AllowNamesAll ==
  /\ response.allow = GetAllow(nodes[last.matched.Node])
  /\ \A m \in HandledMethods(last.matched.Node) : Contains(response.allow, m)

\* C21: a matched node without a handler for the request method: OPTIONS is
\* answered 204 with the Allow header of the node's methods and no handler
\* invoked; any other method invokes the fallback handler when one is
\* configured and is answered 405 with the same Allow header otherwise; the
\* request ends in exactly one of these outcomes.
C21_NoHandlerOutcome ==
  NoHandlerCase =>
    /\ (response.invoked # NilHandler) # (response.status # 0)
    /\ IF last.method = OPTIONS
         THEN response.status = 204 /\ AllowNamesAll /\ response.invoked = NilHandler
         ELSE IF otherwise # NilHandler
           THEN response.invoked = otherwise /\ response.status = 0
           ELSE response.status = 405 /\ AllowNamesAll /\ response.invoked = NilHandler

\* C21 witness: an OPTIONS request for a node with two methods registered
\* was answered 204 with both in the Allow header.
C21_Witness ==
  /\ NoHandlerCase
  /\ last.method = OPTIONS
  /\ response.status = 204
  /\ Cardinality(HandledMethods(last.matched.Node)) = 2

\* C21 second witness state: a request answered 405.
C21_Witness405 ==
  /\ NoHandlerCase
  /\ response.status = 405
  /\ response.allow # <<>>

\* C22: redirect and unmatched outcomes: when Match returns TSR or FPR the
\* router redirects to that path, with 301 for GET and 307 for every other
\* method, and invokes no handler; when Match returns no node and no
\* redirect the router invokes the fallback handler, or answers 501 when
\* none is configured.
C22_RedirectOrUnmatched ==
  (last.op = "Serve" /\ last.matched.Node = NilNode) =>
    IF last.matched.TSR # <<>> \/ last.matched.FPR # <<>>
      THEN /\ response.status = IF last.method = GET THEN 301 ELSE 307
           /\ response.location \in {last.matched.TSR, last.matched.FPR} \ {<<>>}
           /\ response.invoked = NilHandler
      ELSE IF otherwise # NilHandler
        THEN response.invoked = otherwise /\ response.status = 0
        ELSE response.status = 501 /\ response.invoked = NilHandler

\* C22 witness: a PUT request for a path with a trailing slash too many was
\* redirected with 307.
C22_Witness ==
  /\ last.op = "Serve"
  /\ last.matched.TSR # <<>>
  /\ last.method = PUT
  /\ response.status = 307
  /\ response.location = last.matched.TSR

\* C22 second witness state: an unmatched request answered 501.
C22_Witness501 ==
  /\ last.op = "Serve"
  /\ response.status = 501

\* child c has a suffix
HasSuffixKey(c) ==
  nodes[c].suffix # <<>>

\* child c has a regex
HasRegexKey(c) ==
  nodes[c].regex # NilRegex

\* child a may stand before child b in a varyChildren list
InVaryOrder(a, b) ==
  /\ ~(HasSuffixKey(b) /\ ~HasSuffixKey(a))
  /\ HasSuffixKey(a) = HasSuffixKey(b) =>
       /\ ~(HasRegexKey(b) /\ ~HasRegexKey(a))
       /\ HasRegexKey(a) = HasRegexKey(b) => a < b

\* C23: in every node's varyChildren the children with a suffix precede
\* those without, among children of equal suffix-presence those with a regex
\* precede those without, and children equal on both keys stand in the
\* order of their insertion (the order of their allocation).
C23_VaryChildrenSorted ==
  \A n \in NodeIds :
    \A i, j \in 1..Len(nodes[n].varyChildren) :
      i < j => InVaryOrder(nodes[n].varyChildren[i], nodes[n].varyChildren[j])

\* C23 witness: a child with a suffix defined after a child without one
\* stands before it.
C23_Witness ==
  \E n \in NodeIds :
    \E i, j \in 1..Len(nodes[n].varyChildren) :
      /\ i < j
      /\ HasSuffixKey(nodes[n].varyChildren[i])
      /\ ~HasSuffixKey(nodes[n].varyChildren[j])
      /\ nodes[n].varyChildren[i] > nodes[n].varyChildren[j]

\* the positions of the dynamic children of n that accept the segment
Accepting(n, seg) ==
  {k \in 1..Len(nodes[n].varyChildren) :
     matchVaryAccepts(nodes[nodes[n].varyChildren[k]], seg)}

\* the children of n that could take the segment: the literal child under
\* that key and, for a non-empty segment, every dynamic child accepting it
Candidates(n, seg) ==
  {e[2] : e \in {e \in nodes[n].children : e[1] = seg}}
    \cup (IF seg = <<>> THEN {}
          ELSE {nodes[n].varyChildren[k] : k \in Accepting(n, seg)})

\* the one child the greedy rule commits to: the literal child if there is
\* one, else the first dynamic child accepting the segment, else none
GreedyChild(n, seg) ==
  IF \E e \in nodes[n].children : e[1] = seg
    THEN (CHOOSE e \in nodes[n].children : e[1] = seg)[2]
  ELSE IF seg = <<>> \/ Accepting(n, seg) = {} THEN NilNode
  ELSE nodes[n].varyChildren[CHOOSE k \in Accepting(n, seg) :
                               \A m \in Accepting(n, seg) : k <= m]

RECURSIVE GreedyLanding(_, _)
\* where the greedy rule leads from n over the segments; NilNode at a dead
\* end
GreedyLanding(n, segs) ==
  IF segs = <<>> THEN n
  ELSE IF GreedyChild(n, segs[1]) = NilNode THEN NilNode
  ELSE IF IsCatchAll(GreedyChild(n, segs[1])) THEN GreedyChild(n, segs[1])
  ELSE GreedyLanding(GreedyChild(n, segs[1]), Tail(segs))

RECURSIVE AnyLanding(_, _)
\* the nodes some choice of candidates leads to from n over the segments
AnyLanding(n, segs) ==
  IF segs = <<>> THEN {n}
  ELSE UNION { IF IsCatchAll(c) THEN {c} ELSE AnyLanding(c, Tail(segs)) :
               c \in Candidates(n, segs[1]) }

\* C24: matching is greedy and does not backtrack: Match returns a node only
\* if the greedy rule, committing at each level to the literal child or else
\* to the first accepting dynamic child, leads to it; at a dead end of that
\* walk Match returns no node, whatever endpoints other siblings lead to.
C24_GreedyNoBacktracking ==
  (last.op = "Match" /\ ~last.panic) =>
    /\ GreedyLanding(RootNode, WalkedSegments(last.arg)) = NilNode
         => last.matched.Node = NilNode
    /\ last.matched.Node # NilNode
         => last.matched.Node = GreedyLanding(RootNode, WalkedSegments(last.arg))

\* C24 witness: Match has returned no node at a dead end of the greedy walk
\* although another sibling leads to an endpoint for the same path.
C24_Witness ==
  /\ last.op = "Match"
  /\ ~last.panic
  /\ GreedyLanding(RootNode, WalkedSegments(last.arg)) = NilNode
  /\ last.matched.Node = NilNode
  /\ WalkedPath(last.arg) = last.arg
  /\ \E n \in AnyLanding(RootNode, WalkedSegments(last.arg)) : nodes[n].endpoint

\* every segment of the pattern is a literal of word characters
IsLiteralPattern(pattern) ==
  \A k \in 1..Len(PatternSegments(pattern)) : wordReg(PatternSegments(pattern)[k])

\* two registered literal patterns that differ only in letter case
CaseVariants(e1, e2) ==
  /\ e1 \in defined /\ e2 \in defined
  /\ IsLiteralPattern(e1[1]) /\ IsLiteralPattern(e2[1])
  /\ e1[1] # e2[1]
  /\ ToLower(e1[1]) = ToLower(e2[1])

\* C25: with IgnoreCase on, literal patterns differing only in letter case
\* define the same node and paths differing only in letter case whose
\* segments are all matched by literal children yield the same Node; with
\* IgnoreCase off such patterns define distinct nodes and a path never
\* yields the node of a pattern it differs from in letter case.
C25_CaseFolding ==
  /\ \A e1 \in defined : \A e2 \in defined :
       CaseVariants(e1, e2) => (opts.ignoreCase <=> e1[2] = e2[2])
  /\ (last.op = "Match" /\ ~last.panic /\ opts.ignoreCase
        /\ LiteralWalk(RootNode, WalkedSegments(last.arg)) # NilNode)
       => \A q \in Paths(scen) :
            ToLower(q) = ToLower(last.arg)
              => MatchOp(nodes, opts, q).Node = last.matched.Node
  /\ (last.op = "Match" /\ ~last.panic /\ ~opts.ignoreCase)
       => \A e \in defined :
            ( /\ IsLiteralPattern(e[1])
              /\ e[1] # last.arg
              /\ ToLower(e[1]) = ToLower(last.arg) )
            => last.matched.Node # e[2]

\* a segment that declares a parameter: it starts with one ":" and is not
\* an escaped literal
IsDynamicSegment(seg) ==
  /\ Len(seg) > 0
  /\ At(seg, 0) = ":"
  /\ ~doubleColonReg(seg)

\* the declared name of a dynamic segment: what follows the ":" up to the
\* first "(", "+" or "*"
DeclaredName(seg) ==
  LET body == Slice(seg, 1, Len(seg))
      stops == {k \in 0..(Len(body) - 1) : At(body, k) \in {"(", "+", "*"}}
      stop == IF stops = {} THEN Len(body)
              ELSE CHOOSE k \in stops : \A j \in stops : k <= j
  IN  Slice(body, 0, stop)

\* a segment no pattern may hold
MalformedSegment(seg) ==
  \/ seg = <<"*">>
  \/ Len(seg) > 0 /\ At(seg, 0) \in {"(", ")"}
  \/ /\ IsDynamicSegment(seg)
     /\ \/ ~wordReg(DeclaredName(seg))
        \/ Contains(seg, <<"(", ")">>)
        \/ At(seg, Len(seg) - 1) = "+"

\* a pattern Define has to reject
Malformed(pattern) ==
  \/ Contains(pattern, <<"/", "/">>)
  \/ \E k \in 1..Len(PatternSegments(pattern)) :
       MalformedSegment(PatternSegments(pattern)[k])

\* the nodes marked as endpoints
Endpoints(ns) ==
  {n \in 1..Len(ns) : ns[n].endpoint}

\* C26: Define panics on every malformed pattern (a "//", a segment that is
\* a bare * or starts with ( or ), a dynamic segment with an empty or
\* non-word name, with an empty regex or with an empty suffix), and no
\* endpoint is marked by such a call.
C26_MalformedPanics ==
  [][ \A pattern \in Patterns(scen) :
        (Malformed(pattern) /\ Define(pattern))
          => (last'.panic /\ Endpoints(nodes') = Endpoints(nodes)) ]_vars

\* the pattern is one escaped segment, "/::name" or "/::"
IsEscapedPattern(pattern) ==
  /\ Len(PatternSegments(pattern)) = 1
  /\ doubleColonReg(PatternSegments(pattern)[1])

\* the literal text an escaped segment stands for: the segment less its
\* first colon
EscapedText(pattern) ==
  Tail(PatternSegments(pattern)[1])

\* C27: an escaped segment ::name is a literal: its node is held in children
\* under the key :name, carries no parameter name, is what Match returns for
\* exactly the path segment :name, with no Params entry, and a plain :name
\* dynamic sibling defined under the same parent is a distinct child, held
\* in varyChildren.
C27_EscapedLiteral ==
  \A e \in defined :
    IsEscapedPattern(e[1]) =>
      /\ getChild(nodes, RootNode, Folded(EscapedText(e[1]))) = e[2]
      /\ nodes[e[2]].name = <<>>
      /\ VarySet(RootNode) \cap {e[2]} = {}
      /\ (last.op = "Match" /\ ~last.panic) =>
           /\ last.arg = <<"/">> \o EscapedText(e[1])
                => (last.matched.Node = e[2] /\ last.matched.Params = {})
           /\ last.matched.Node = e[2]
                => Folded(Tail(last.arg)) = Folded(EscapedText(e[1]))
      /\ \A d \in defined :
           (d[1] = <<"/">> \o EscapedText(e[1]) /\ ~Malformed(d[1]))
             => (d[2] # e[2] /\ d[2] \in VarySet(RootNode))

\* C28: in every Matched result at most one of Node, FPR and TSR is set; FPR
\* is set only if FixedPathRedirect is on and the requested path held
\* consecutive slashes, and TSR is set only if TrailingSlashRedirect is on.
C28_OneOutcome ==
  (last.op = "Match" /\ ~last.panic) =>
    /\ last.matched.Node # NilNode
         => (last.matched.FPR = <<>> /\ last.matched.TSR = <<>>)
    /\ ~(last.matched.FPR # <<>> /\ last.matched.TSR # <<>>)
    /\ last.matched.FPR # <<>>
         => (opts.fpr /\ Contains(last.arg, <<"/", "/">>))
    /\ last.matched.TSR # <<>> => opts.tsr

\* C28 witness: Match has answered with a fixed-path redirect, for a path
\* with doubled slashes whose collapsed form lacks or exceeds a final slash,
\* under both redirect options.
C28_Witness ==
  /\ last.op = "Match"
  /\ opts.fpr /\ opts.tsr
  /\ last.matched.FPR # <<>>
  /\ last.matched.FPR # ReplaceMultiSlash(last.arg)
  /\ last.matched.Node = NilNode

\* C28 second witness state: Match has answered with a trailing-slash
\* redirect and nothing else
C28_WitnessTSR ==
  /\ last.op = "Match"
  /\ last.matched.TSR # <<>>
  /\ last.matched.FPR = <<>>
  /\ last.matched.Node = NilNode

\* C28 third witness state: Match has answered with a node and nothing else
\* although both redirect options are on
C28_WitnessNode ==
  /\ last.op = "Match"
  /\ opts.fpr /\ opts.tsr
  /\ last.matched.Node # NilNode

\* the redirect target of a Matched result: FPR, else TSR, else empty
RedirectTarget(matched) ==
  IF matched.FPR # <<>> THEN matched.FPR ELSE matched.TSR

\* the Matched result m is an endpoint and no redirect
LandsOnEndpoint(m) ==
  /\ ~m.panic
  /\ m.Node \in NodeIds
  /\ nodes[m.Node].endpoint
  /\ m.TSR = <<>>
  /\ m.FPR = <<>>

\* C29: redirect targets are sound and loop-free: whenever Match returns a
\* non-empty TSR or FPR r, r starts with "/" and Match(r) returns an endpoint
\* Node with empty TSR and FPR.
C29_RedirectLands ==
  (last.op = "Match" /\ ~last.panic /\ RedirectTarget(last.matched) # <<>>) =>
    /\ RedirectTarget(last.matched)[1] = "/"
    /\ LandsOnEndpoint(MatchOp(nodes, opts, RedirectTarget(last.matched)))

\* C29 witness: Match has answered a path with doubled slashes with a
\* fixed-path redirect that also adds or removes the final slash, and the
\* target is an endpoint.
C29_Witness ==
  /\ last.op = "Match"
  /\ last.matched.FPR # <<>>
  /\ last.matched.FPR # ReplaceMultiSlash(last.arg)
  /\ LandsOnEndpoint(MatchOp(nodes, opts, last.matched.FPR))

\* C29 second witness state: a trailing-slash redirect whose target is an
\* endpoint reached through a named child
C29_WitnessTSR ==
  /\ last.op = "Match"
  /\ last.matched.TSR # <<>>
  /\ LandsOnEndpoint(MatchOp(nodes, opts, last.matched.TSR))
  /\ MatchOp(nodes, opts, last.matched.TSR).Params # {}

RECURSIVE Chain(_)
\* the nodes from the child of the root down to n, along the parent links
Chain(n) ==
  IF n = RootNode \/ n = NilNode THEN <<>>
  ELSE Append(Chain(nodes[n].parent), n)

\* the request's own text that the dynamic node c, j-th of the chain, stands
\* for: the rest of the path for a catch-all, else the j-th segment less the
\* declared suffix
OwnText(c, segs, j) ==
  IF nodes[c].wildcard
    THEN JoinSlash(SubSeq(segs, j, Len(segs)))
    ELSE Captured(c, segs[j])

\* the deepest position of the chain whose node declares the name
Deepest(chain, name) ==
  CHOOSE j \in 1..Len(chain) :
    /\ nodes[chain[j]].name = name
    /\ \A k \in (j + 1)..Len(chain) : nodes[chain[k]].name # name

\* params holds one entry for each name declared on the chain and no other,
\* its value the text of segs at the deepest node of that name
ParamsOfChain(params, chain, segs) ==
  /\ Len(chain) <= Len(segs)
  /\ {e[1] : e \in params} =
       {nodes[chain[j]].name : j \in 1..Len(chain)} \ {<<>>}
  /\ \A e1 \in params : \A e2 \in params : e1[1] = e2[1] => e1 = e2
  /\ \A e \in params :
       e[2] = OwnText(chain[Deepest(chain, e[1])], segs, Deepest(chain, e[1]))

\* C30: when Match returns a node, the keys of Params are exactly the names of
\* the dynamic nodes on the chain from the root to it (none when the chain is
\* all literal), each value is the request path's own text for that segment
\* in its original letter case, and of two levels with one name the deeper
\* capture is kept.
C30_ParamsOfChain ==
  (last.op = "Match" /\ ~last.panic /\ last.matched.Node # NilNode) =>
    ParamsOfChain(last.matched.Params, Chain(last.matched.Node),
                  Split(Tail(last.arg), "/"))

\* C30 witness: under IgnoreCase Match has returned a node two levels deep
\* whose chain declares one name twice, for a path with an upper-case letter
\* in the shadowed segment, and Params holds the deeper segment.
C30_Witness ==
  /\ last.op = "Match"
  /\ opts.ignoreCase
  /\ last.matched.Node # NilNode
  /\ Len(Chain(last.matched.Node)) = 2
  /\ nodes[Chain(last.matched.Node)[1]].name # <<>>
  /\ nodes[Chain(last.matched.Node)[1]].name = nodes[Chain(last.matched.Node)[2]].name
  /\ Split(Tail(last.arg), "/")[1] # ToLower(Split(Tail(last.arg), "/")[1])
  /\ last.matched.Params =
       {<<nodes[last.matched.Node].name, Split(Tail(last.arg), "/")[2]>>}

\* C30 second witness state: Match has returned a node reached over literal
\* children only, with no Params entry
C30_WitnessLiteral ==
  /\ last.op = "Match"
  /\ last.matched.Node # NilNode
  /\ last.matched.Params = {}
  /\ \A j \in 1..Len(Chain(last.matched.Node)) :
       nodes[Chain(last.matched.Node)[j]].name = <<>>

====
